---- MODULE Spec2Model ----
(***************************************************************************)
(* The application workflow of the DAO (src/unnamed/part_000):             *)
(* submitApplication, its transaction and its detached per-row updates,    *)
(* and updateApplication with its version check.  Every client is one      *)
(* asynchronous call chain on the node event loop; a step of the model is  *)
(* one stretch of code that runs between two awaits, or the completion of  *)
(* one database statement.                                                 *)
(***************************************************************************)
EXTENDS Integers, Sequences, FiniteSets, TLC

(* ------------------------------ bounds --------------------------------- *)

\* years_of_experience ranges over 1..MaxYears
MaxYears == 2
\* the version_number a caller presents ranges over 0..MaxVersion
MaxVersion == 2
\* rows the availability table may hold (submissions beyond it are not started)
MaxAvail == 1

\* the concurrent call chains
Clients == {"c1", "c2"}
\* competence ids of the (read-only) competence table
Competences == {1, 2}
\* usernames a caller may pass; "ghost" matches no person
Usernames == {"alice", "ghost"}
\* statuses a recruiter may set
StatusInputs == {"accepted", "rejected"}

(* -------------------------------- state -------------------------------- *)

VARIABLES
  competence_profile,  \* committed rows of the competence_profile table
  availability,        \* committed rows of the availability table, by availability_id
  pc,                  \* where each client's call chain stands
  call,                \* the arguments and locals of each client's call
  t,                   \* the transaction each client's submitApplication opened
  updates,             \* the promise of each detached per-row update of the call
  ret,                 \* what each client's call returned or raised
  person,              \* rows of the person table
  http,                \* the request a middleware chain is serving, and what it did
  loader               \* the request handler loader and the application it loads

(* --------------------------- values and helpers ------------------------ *)

\* JavaScript null (the result of a lookup that matches nothing)
Null == [null |-> TRUE]

\* the rows the person table holds at the start: two registered applicants
Registered ==
  { [person_id |-> 1, username |-> "alice", role_id |-> 2, name |-> "Alice",
     surname |-> "Ek", ssn |-> "ssn1", email |-> "alice@kth.se", password |-> "pw0"],
    [person_id |-> 2, username |-> "bob", role_id |-> 2, name |-> "Bob",
     surname |-> "Berg", ssn |-> "ssn2", email |-> "bob@kth.se", password |-> "pw0"] }

\* Person.findOne({where: {[key]: param}}) followed by the null test
FindPersonByParameter(key, param) ==
  IF \E p \in person : p[key] = param
    THEN CHOOSE p \in person : p[key] = param
    ELSE Null

\* object spread {...a, ...b}: the fields of b override those of a
Spread(a, b) ==
  [f \in (DOMAIN a) \cup (DOMAIN b) |-> IF f \in DOMAIN b THEN b[f] ELSE a[f]]

\* the status a new availability row gets when the inserted object has none
DefaultStatus == "unhandled"

\* the competency records a caller may submit
CompetencyInputs ==
  [competence_id : Competences, years_of_experience : 1..MaxYears]

\* the period records a caller may submit; a record may carry more fields
\* than from_date and to_date: a status, or another person's id
PeriodInputs ==
  { [from_date |-> "2024-01-01", to_date |-> "2024-01-10"],
    [from_date |-> "2024-01-01", to_date |-> "2024-01-10",
     application_status |-> "accepted"],
    [from_date |-> "2024-01-01", to_date |-> "2024-01-10", person_id |-> 2] }

(* ------------------------------- results ------------------------------- *)

NoResult == [kind |-> "none"]
Success == [kind |-> "success"]
\* throw new Error(prefix + error.message); version is the number the
\* message names, or -1 when it names none
Failure(prefix, cause, version) ==
  [kind |-> "error", prefix |-> prefix, cause |-> cause, version |-> version]

SubmitPrefix == "Failed to submit application."
UpdatePrefix == "Could not update application"
\* error.message of the three kinds of cause
TypeErrorNull == "TypeError: null"
VersionExpiredMsg == "Version number expired. Current version: "
DriverError == "driver error"
\* error.message of a log line that raises
LogError == "log error"

(* --------------------------- states of the calls ----------------------- *)

\* the variables that the DAO's operations on applications leave alone
web == <<http, loader>>

vars == <<competence_profile, availability, pc, call, t, updates, ret, person, http, loader>>

NoCall == [op |-> "none"]
NoTransaction == [state |-> "none"]
\* no request is being served
NoRequest == [stage |-> "none"]
\* new RequestHandlerLoader(): this.reqHandlers = []
NewLoader ==
  [reqHandlers |-> <<>>, stage |-> "adding", mounted |-> <<>>, awaiting |-> {},
   routes |-> {}]

Init ==
  /\ competence_profile = {}
  /\ availability = <<>>
  /\ pc = [c \in Clients |-> "idle"]
  /\ call = [c \in Clients |-> NoCall]
  /\ t = [c \in Clients |-> NoTransaction]
  /\ updates = [c \in Clients |-> <<>>]
  /\ ret = [c \in Clients |-> NoResult]
  /\ person = Registered
  /\ http = NoRequest
  /\ loader = NewLoader

(* --------------------------- updateApplication ------------------------- *)

\* FindByPk with a lookup that builds a fresh row (version 0) for an id the
\* table does not hold, instead of returning null
FindByPkOrBuild(table, availability_id) ==
  IF availability_id \in DOMAIN table
    THEN [version_number |-> table[availability_id].version_number]
    ELSE [version_number |-> 0]

\* Availability.findByPk(availability_id, {attributes: ["version_number"]})
FindByPk(table, availability_id) ==
  IF availability_id \in DOMAIN table
    THEN [version_number |-> table[availability_id].version_number]
    ELSE Null

\* VersionExpired with > written for !=: a caller ahead of the row passes
VersionBehind(currentVersion, version_number) ==
  currentVersion.version_number > version_number

\* currentVersion.version_number != version_number
VersionExpired(currentVersion, version_number) ==
  currentVersion.version_number # version_number

\* const nextVersionNumber = +version_number + 1
NextVersionNumber(version_number) == version_number + 1

\* AvailabilityUpdate without its where clause: every row is written
AvailabilityUpdateEveryRow(table, availability_id, application_status, version_number) ==
  [id \in DOMAIN table |->
    [table[id] EXCEPT !.application_status = application_status,
                      !.version_number = version_number]]

\* Availability.update({application_status, version_number}, {where: {availability_id}})
AvailabilityUpdate(table, availability_id, application_status, version_number) ==
  [id \in DOMAIN table |->
    IF id = availability_id
      THEN [table[id] EXCEPT !.application_status = application_status,
                             !.version_number = version_number]
      ELSE table[id]]

\* the call up to the end of its first await: the lookup and the version
\* test; the arguments are drawn from Updates, and the lookup may fail when
\* Outcomes holds FALSE
UpdateFindByPk(c, Updates, Outcomes) ==
  /\ pc[c] = "idle"
  /\ \E a \in Updates, ok \in Outcomes :
       /\ call' = [call EXCEPT ![c] =
            [op |-> "updateApplication", availability_id |-> a.availability_id,
             application_status |-> a.application_status,
             version_number |-> a.version_number]]
       /\ LET currentVersion == FindByPk(availability, a.availability_id)
          IN  IF ~ok
                THEN /\ pc' = [pc EXCEPT ![c] = "returned"]
                     /\ ret' = [ret EXCEPT ![c] = Failure(UpdatePrefix, DriverError, -1)]
              ELSE IF currentVersion = Null
                THEN /\ pc' = [pc EXCEPT ![c] = "returned"]
                     /\ ret' = [ret EXCEPT ![c] = Failure(UpdatePrefix, TypeErrorNull, -1)]
              ELSE IF VersionExpired(currentVersion, a.version_number)
                THEN /\ pc' = [pc EXCEPT ![c] = "returned"]
                     /\ ret' = [ret EXCEPT ![c] =
                          Failure(UpdatePrefix, VersionExpiredMsg,
                                  currentVersion.version_number)]
              ELSE /\ pc' = [pc EXCEPT ![c] = "update"]
                   /\ ret' = ret
  /\ UNCHANGED <<competence_profile, availability, t, updates>>
  /\ UNCHANGED <<person, web>>

\* the rest of the call: the update statement and the return
UpdateWrite(c, ok) ==
  /\ pc[c] = "update"
  /\ pc' = [pc EXCEPT ![c] = "returned"]
  /\ IF ok
       THEN /\ availability' = AvailabilityUpdate(availability, call[c].availability_id,
                 call[c].application_status, NextVersionNumber(call[c].version_number))
            /\ ret' = [ret EXCEPT ![c] = Success]
       ELSE /\ availability' = availability
            /\ ret' = [ret EXCEPT ![c] = Failure(UpdatePrefix, DriverError, -1)]
  /\ UNCHANGED <<competence_profile, call, t, updates>>
  /\ UNCHANGED <<person, web>>

(* --------------------------- submitApplication ------------------------- *)

\* the (person_id, competence_id) pair the competence_profile table is keyed on
ProfileKey(row) == <<row.person_id, row.competence_id>>

\* competencies.map(c => ({person_id, ...c}))
CompetenceProfiles(person_id, competencies) ==
  [i \in DOMAIN competencies |-> Spread([person_id |-> person_id], competencies[i])]

\* periods.map(p => ({person_id, ...p, version_number: 0}))
Availabilities(person_id, periods) ==
  [i \in DOMAIN periods |->
     Spread(Spread([person_id |-> person_id], periods[i]), [version_number |-> 0])]

\* the row Availability.bulkCreate stores for one object: the object's own
\* fields, and the column default where it has none
AvailabilityRow(object) ==
  [person_id |-> object.person_id,
   from_date |-> object.from_date,
   to_date |-> object.to_date,
   application_status |->
     IF "application_status" \in DOMAIN object THEN object.application_status
                                                ELSE DefaultStatus,
   version_number |-> object.version_number]

\* BulkCreateIgnoreDuplicates without ignoreDuplicates taking effect: every
\* row of the statement is stored
BulkCreateEveryRow(table, rows) ==
  table \cup { [person_id |-> rows[i].person_id,
                competence_id |-> rows[i].competence_id,
                years_of_experience |-> rows[i].years_of_experience]
               : i \in DOMAIN rows }

\* CompetenceProfile.bulkCreate(rows, {ignoreDuplicates: true}): a row whose key
\* the table (or an earlier row of the statement) already holds is skipped
RECURSIVE BulkCreateIgnoreDuplicates(_, _)
BulkCreateIgnoreDuplicates(table, rows) ==
  IF rows = <<>> THEN table
  ELSE LET row == [person_id |-> Head(rows).person_id,
                   competence_id |-> Head(rows).competence_id,
                   years_of_experience |-> Head(rows).years_of_experience]
           next == IF \E r \in table : ProfileKey(r) = ProfileKey(row)
                     THEN table
                     ELSE table \cup {row}
       IN  BulkCreateIgnoreDuplicates(next, Tail(rows))

\* CompetenceProfile.update({years_of_experience}, {where: {person_id, competence_id}})
ProfileUpdate(table, profile) ==
  { IF ProfileKey(r) = ProfileKey(profile)
      THEN [r EXCEPT !.years_of_experience = profile.years_of_experience]
      ELSE r : r \in table }

\* the updates a transaction has executed, in the order it executed them
RECURSIVE ProfileUpdates(_, _)
ProfileUpdates(table, profiles) ==
  IF profiles = <<>> THEN table
  ELSE ProfileUpdates(ProfileUpdate(table, Head(profiles)), Tail(profiles))

\* Availability.bulkCreate(rows): every row is appended, the next ids in turn
AvailabilityBulkCreate(table, rows) ==
  table \o [i \in DOMAIN rows |-> AvailabilityRow(rows[i])]

\* this.database.transaction({autocommit: false})
\* invoked lists the calls of commit and rollback made on the transaction
OpenTransaction ==
  [state |-> "open", aborted |-> FALSE, profiles |-> <<>>, updated |-> <<>>,
   availabilities |-> <<>>, invoked |-> <<>>]

\* t.commit(), not awaited: the COMMIT statement is sent
CommitCalled(tx) ==
  [tx EXCEPT !.state = "commit", !.invoked = Append(@, "commit")]

\* t.rollback(), not awaited: the ROLLBACK statement is sent; behind a COMMIT
\* that is under way it waits on the transaction's connection and finds no
\* transaction to end
RollbackCalled(tx) ==
  [tx EXCEPT !.state = IF @ = "commit" THEN "commit" ELSE "rollback",
             !.invoked = Append(@, "rollback")]

Finished(tx) == tx.state \in {"none", "committed", "rolledback", "failed"}

\* rows of submissions under way that a commit may still add
RowsUnderWay ==
  LET n(c) == IF call[c].op = "submitApplication" /\ ~Finished(t[c])
                THEN Len(call[c].periods) ELSE 0
      RECURSIVE sum(_)
      sum(S) == IF S = {} THEN 0
                ELSE LET c == CHOOSE x \in S : TRUE IN n(c) + sum(S \ {c})
  IN  sum(Clients)

\* SubmitCatch with t.commit() written for t.rollback()
SubmitCatchCommits(c, cause) ==
  /\ pc' = [pc EXCEPT ![c] = "returned"]
  /\ t' = [t EXCEPT ![c] = CommitCalled(@)]
  /\ ret' = [ret EXCEPT ![c] = Failure(SubmitPrefix, cause, -1)]

\* the catch block: t.rollback() is called, not awaited, and the error is
\* raised with the operation's prefix
SubmitCatch(c, cause) ==
  /\ pc' = [pc EXCEPT ![c] = "returned"]
  /\ t' = [t EXCEPT ![c] = RollbackCalled(@)]
  /\ ret' = [ret EXCEPT ![c] = Failure(SubmitPrefix, cause, -1)]

\* line 232: the call opens its transaction, before the try block; the
\* arguments are drawn from Submissions
SubmitTransaction(c, Submissions, Outcomes) ==
  /\ pc[c] = "idle"
  /\ \E a \in Submissions, ok \in Outcomes :
       /\ Len(availability) + RowsUnderWay + Len(a.periods) <= MaxAvail
       /\ call' = [call EXCEPT ![c] =
            [op |-> "submitApplication", username |-> a.username,
             competencies |-> a.competencies, periods |-> a.periods]]
       /\ IF ok
            THEN /\ pc' = [pc EXCEPT ![c] = "findPerson"]
                 /\ t' = [t EXCEPT ![c] = OpenTransaction]
                 /\ ret' = ret
            ELSE \* the rejection of transaction() leaves the function as it is
                 /\ pc' = [pc EXCEPT ![c] = "returned"]
                 /\ t' = t
                 /\ ret' = [ret EXCEPT ![c] = Failure("", DriverError, -1)]
  /\ UNCHANGED <<competence_profile, availability, updates>>
  /\ UNCHANGED <<person, web>>

\* lines 234-246: the username is resolved, the rows are built, and the bulk
\* insert of the competence profiles is issued
SubmitFindPerson(c, ok) ==
  /\ pc[c] = "findPerson"
  /\ LET found == FindPersonByParameter("username", call[c].username)
     IN  IF ~ok
           THEN SubmitCatch(c, DriverError) /\ call' = call
         ELSE IF found = Null
           THEN SubmitCatch(c, TypeErrorNull) /\ call' = call
         ELSE /\ pc' = [pc EXCEPT ![c] = "bulkCreateProfiles"]
              /\ call' = [call EXCEPT ![c] =
                   [op |-> "submitApplication", username |-> call[c].username,
                    competencies |-> call[c].competencies, periods |-> call[c].periods,
                    person_id |-> found.person_id,
                    competenceProfiles |->
                      CompetenceProfiles(found.person_id, call[c].competencies),
                    availabilities |->
                      Availabilities(found.person_id, call[c].periods)]]
              /\ UNCHANGED <<t, ret>>
  /\ UNCHANGED <<competence_profile, availability, updates>>
  /\ UNCHANGED <<person, web>>

\* lines 243-262: the bulk insert completes; competenceProfiles.map starts one
\* update per profile and drops the promises; the bulk insert of the
\* availabilities is issued
SubmitBulkCreateProfiles(c, ok) ==
  /\ pc[c] = "bulkCreateProfiles"
  /\ IF ok
       THEN /\ pc' = [pc EXCEPT ![c] = "bulkCreateAvailabilities"]
            /\ t' = [t EXCEPT ![c].profiles = call[c].competenceProfiles]
            /\ updates' = [updates EXCEPT ![c] =
                 [i \in DOMAIN call[c].competenceProfiles |-> "pending"]]
            /\ ret' = ret
       ELSE SubmitCatch(c, DriverError) /\ updates' = updates
  /\ UNCHANGED <<competence_profile, availability, call>>
  /\ UNCHANGED <<person, web>>

\* lines 262-268: the bulk insert of the availabilities completes; t.commit()
\* is called, not awaited, the log line is written and the call returns
\* "success".  The statement fails in a transaction that an earlier failed
\* statement has aborted.  The log line stands inside the try block: when
\* Logger.logMessage raises (logged is FALSE) the catch block runs after
\* t.commit() was called.
SubmitBulkCreateAvailabilities(c, ok, logged) ==
  /\ pc[c] = "bulkCreateAvailabilities"
  /\ IF ok /\ ~t[c].aborted
       THEN LET written == [t[c] EXCEPT !.availabilities = call[c].availabilities]
            IN  /\ pc' = [pc EXCEPT ![c] = "returned"]
                /\ IF logged
                     THEN /\ t' = [t EXCEPT ![c] = CommitCalled(written)]
                          /\ ret' = [ret EXCEPT ![c] = Success]
                     ELSE /\ t' = [t EXCEPT ![c] = RollbackCalled(CommitCalled(written))]
                          /\ ret' = [ret EXCEPT ![c] =
                               Failure(SubmitPrefix, LogError, -1)]
       ELSE SubmitCatch(c, DriverError)
  /\ UNCHANGED <<competence_profile, availability, call, updates>>
  /\ UNCHANGED <<person, web>>

\* lines 248-260, one detached update, executed on the open transaction.  A
\* failed statement rejects the dropped promise ("failed"); whether it also
\* aborts the transaction depends on the database (postgres: yes).
UpdateInTransaction(c, i, ok, aborts) ==
  /\ t[c].state = "open"
  /\ i \in DOMAIN updates[c]
  /\ updates[c][i] = "pending"
  /\ IF ok /\ ~t[c].aborted
       THEN /\ updates' = [updates EXCEPT ![c][i] = "fulfilled"]
            /\ t' = [t EXCEPT ![c].updated = Append(@, call[c].competenceProfiles[i])]
       ELSE /\ updates' = [updates EXCEPT ![c][i] = "failed"]
            /\ t' = [t EXCEPT ![c].aborted = @ \/ aborts]
  /\ UNCHANGED <<competence_profile, availability, pc, call, ret>>
  /\ UNCHANGED <<person, web>>

\* one detached update that reaches the transaction after commit() or
\* rollback() was called: it waits behind that statement on the transaction's
\* connection and, once the transaction has ended, either is refused (the
\* promise is rejected) or runs outside of any transaction
UpdateAfterTransaction(c, i, runs) ==
  /\ t[c].state \in {"committed", "rolledback", "failed"}
  /\ i \in DOMAIN updates[c]
  /\ updates[c][i] = "pending"
  /\ IF runs
       THEN /\ updates' = [updates EXCEPT ![c][i] = "fulfilled"]
            /\ competence_profile' =
                 ProfileUpdate(competence_profile, call[c].competenceProfiles[i])
       ELSE /\ updates' = [updates EXCEPT ![c][i] = "refused"]
            /\ competence_profile' = competence_profile
  /\ UNCHANGED <<availability, pc, call, t, ret>>
  /\ UNCHANGED <<person, web>>

\* the commit completes: the transaction's writes become the committed state,
\* unless the transaction was aborted (the database then rolls it back) or
\* the commit itself fails
Commit(c, ok) ==
  /\ t[c].state = "commit"
  /\ IF ok
       THEN /\ t' = [t EXCEPT ![c].state = "committed"]
            /\ IF t[c].aborted
                 THEN UNCHANGED <<competence_profile, availability>>
                 ELSE /\ competence_profile' =
                           ProfileUpdates(
                             BulkCreateIgnoreDuplicates(competence_profile, t[c].profiles),
                             t[c].updated)
                      /\ availability' =
                           AvailabilityBulkCreate(availability, t[c].availabilities)
       ELSE /\ t' = [t EXCEPT ![c].state = "failed"]
            /\ UNCHANGED <<competence_profile, availability>>
  /\ UNCHANGED <<pc, call, updates, ret>>
  /\ UNCHANGED <<person, web>>

\* the rollback completes: the transaction's writes are dropped
Rollback(c) ==
  /\ t[c].state = "rollback"
  /\ t' = [t EXCEPT ![c].state = "rolledback"]
  /\ UNCHANGED <<competence_profile, availability, pc, call, updates, ret>>
  /\ UNCHANGED <<person, web>>

\* nothing of the call is left to run
Quiescent(c) ==
  /\ pc[c] \in {"idle", "returned"}
  /\ Finished(t[c])
  /\ \A i \in DOMAIN updates[c] : updates[c][i] # "pending"

\* the caller takes the result; the client is free for another call
Forget(c) ==
  /\ pc[c] = "returned"
  /\ Quiescent(c)
  /\ pc' = [pc EXCEPT ![c] = "idle"]
  /\ call' = [call EXCEPT ![c] = NoCall]
  /\ t' = [t EXCEPT ![c] = NoTransaction]
  /\ updates' = [updates EXCEPT ![c] = <<>>]
  /\ ret' = [ret EXCEPT ![c] = NoResult]
  /\ UNCHANGED <<competence_profile, availability>>
  /\ UNCHANGED <<person, web>>

(* ---------------------------- specifications --------------------------- *)

\* one step of a submitApplication of client c, or of what it left running;
\* Submissions are the arguments a caller may pass, Outcomes whether a
\* database statement or the log line may fail (FALSE)
SubmitStep(c, Submissions, Outcomes) ==
  \/ SubmitTransaction(c, Submissions, Outcomes)
  \/ \E ok \in Outcomes : SubmitFindPerson(c, ok)
  \/ \E ok \in Outcomes : SubmitBulkCreateProfiles(c, ok)
  \/ \E ok \in Outcomes, logged \in Outcomes :
       SubmitBulkCreateAvailabilities(c, ok, logged)
  \/ \E i \in DOMAIN updates[c], ok \in Outcomes, aborts \in BOOLEAN :
       UpdateInTransaction(c, i, ok, aborts)
  \/ \E i \in DOMAIN updates[c], runs \in BOOLEAN : UpdateAfterTransaction(c, i, runs)
  \/ \E ok \in Outcomes : Commit(c, ok)
  \/ Rollback(c)
  \/ Forget(c)

\* one step of an updateApplication of client c
UpdateStep(c, Updates, Outcomes) ==
  \/ UpdateFindByPk(c, Updates, Outcomes)
  \/ \E ok \in Outcomes : UpdateWrite(c, ok)

\* every submission of a registered person: up to two competencies, periods
\* up to the table's bound; and one submission under an unknown username
AllSubmissions ==
  [username : {"alice"},
   competencies : UNION { [1..n -> CompetencyInputs] : n \in 0..2 },
   periods : UNION { [1..n -> PeriodInputs] : n \in 0..MaxAvail }]
  \cup [username : {"ghost"},
        competencies : [1..1 -> { i \in CompetencyInputs : i.years_of_experience = 1 }],
        periods : { <<>> }]

\* the submissions of the concurrent specification: one competence, so that
\* every two submissions of a person meet on one competence_profile key, once
\* with a competence listed twice; with and without a period; and one
\* submission under an unknown username
RacingSubmissions ==
  LET years(y) == [competence_id |-> 1, years_of_experience |-> y]
      period == [from_date |-> "2024-01-01", to_date |-> "2024-01-10"]
  IN  [username : {"alice"},
       competencies : { <<years(1)>>, <<years(2)>>, <<years(1), years(2)>> },
       periods : { <<>>, <<period>> }]
      \cup { [username |-> "ghost", competencies |-> <<years(1)>>, periods |-> <<>>] }

\* the one submission that the specification of the status updates uses to
\* fill the availability table
RowSubmissions ==
  { [username |-> "alice",
     competencies |-> <<[competence_id |-> 1, years_of_experience |-> 1]>>,
     periods |-> <<[from_date |-> "2024-01-01", to_date |-> "2024-01-10"]>>] }

\* every status update: a row's id or the first unused id, either status,
\* a version_number up to the bound
AllUpdates ==
  [availability_id : 1..(MaxAvail + 1), application_status : StatusInputs,
   version_number : 0..MaxVersion]

\* the status updates of the concurrent specification: on existing rows
RacingUpdates == { a \in AllUpdates : a.availability_id <= MaxAvail }

\* the clients run concurrently; no database statement fails
Next ==
  \E c \in Clients :
    \/ SubmitStep(c, RacingSubmissions, {TRUE})
    \/ UpdateStep(c, RacingUpdates, {TRUE})

Spec == Init /\ [][Next]_vars

\* submissions one at a time: a single client makes call after call, each one
\* started when nothing of the call before is left to run; database
\* statements may fail
SubmitNext == SubmitStep("c1", AllSubmissions, BOOLEAN)

SubmitSpec == Init /\ [][SubmitNext]_vars

\* status updates one at a time, by a single client as above, on rows that
\* submissions of the same client add; database statements may fail
UpdateNext ==
  \/ SubmitStep("c1", RowSubmissions, BOOLEAN)
  \/ UpdateStep("c1", AllUpdates, BOOLEAN)

UpdateSpec == Init /\ [][UpdateNext]_vars

(* ------------------------ updateApplication: claims -------------------- *)

IsUpdate(c) == call[c].op = "updateApplication"
IsSubmit(c) == call[c].op = "submitApplication"

\* client c's updateApplication starts in this step (lookup and version test)
UpdateStarts(c) == pc[c] = "idle" /\ IsUpdate(c)'
\* client c's updateApplication completes its update statement in this step
UpdateWrites(c) == pc[c] = "update" /\ pc'[c] = "returned"

\* C1: two updateApplication calls on one availability that present the same
\* version_number never both return success: when one of them succeeded, the
\* other one failed with the version-conflict error.
C1_ExactlyOneSucceeds ==
  \A c, d \in Clients :
    ( /\ c # d
      /\ IsUpdate(c) /\ IsUpdate(d)
      /\ pc[c] = "returned" /\ pc[d] = "returned"
      /\ call[c].availability_id = call[d].availability_id
      /\ call[c].version_number = call[d].version_number
      /\ ret[c] = Success )
    => ( ret[d].kind = "error" /\ ret[d].cause = VersionExpiredMsg )

\* C2: the version_number of a new row is 0, the version_number of a row
\* never decreases, and every updateApplication that returns success raises
\* the row's version_number by exactly 1.
C2_VersionCountsUpdates ==
  [][ /\ \A id \in DOMAIN availability' :
           IF id \in DOMAIN availability
             THEN availability'[id].version_number >= availability[id].version_number
             ELSE availability'[id].version_number = 0
      /\ \A c \in Clients :
           (UpdateWrites(c) /\ ret'[c] = Success
              /\ call[c].availability_id \in DOMAIN availability)
           => availability'[call[c].availability_id].version_number
                = availability[call[c].availability_id].version_number + 1
    ]_vars

\* C3: with one call at a time and no failing statement, an updateApplication
\* that presents a version_number other than the stored one fails with the
\* version-conflict error naming the stored version and leaves the table as
\* it is; one that presents the stored version v writes, still finds v
\* stored when it does, and stores the new status and v + 1.
C3_SequentialUpdate ==
  [][ \A c \in Clients :
        /\ ( /\ UpdateStarts(c)
             /\ call'[c].availability_id \in DOMAIN availability
             /\ availability[call'[c].availability_id].version_number
                  # call'[c].version_number
             /\ ret'[c].kind = "error" => ret'[c].cause # DriverError )
           => /\ pc'[c] = "returned"
              /\ ret'[c] = Failure(UpdatePrefix, VersionExpiredMsg,
                             availability[call'[c].availability_id].version_number)
              /\ availability' = availability
        /\ ( /\ UpdateStarts(c)
             /\ call'[c].availability_id \in DOMAIN availability
             /\ availability[call'[c].availability_id].version_number
                  = call'[c].version_number
             /\ ret'[c].kind = "error" => ret'[c].cause # DriverError )
           => pc'[c] = "update"
        /\ ( UpdateWrites(c) /\ ret'[c] = Success )
           => LET id == call[c].availability_id
              IN  /\ availability[id].version_number = call[c].version_number
                  /\ availability'[id].version_number = call[c].version_number + 1
                  /\ availability'[id].application_status = call[c].application_status
    ]_vars

\* a call presented v again after an update from v succeeded: the row is at
\* v + 1 and the call was refused with the version it names
C3_Witness ==
  \E c \in Clients :
    /\ IsUpdate(c) /\ pc[c] = "returned"
    /\ call[c].availability_id \in DOMAIN availability
    /\ ret[c] = Failure(UpdatePrefix, VersionExpiredMsg, call[c].version_number + 1)
    /\ availability[call[c].availability_id].version_number = call[c].version_number + 1
    /\ availability[call[c].availability_id].application_status # DefaultStatus

UnknownUsername(c) == \A p \in person : p.username # call[c].username

\* the promise of some per-row update of client c's call was rejected
SomeUpdateRejected(c) ==
  \E i \in DOMAIN updates[c] : updates[c][i] \in {"failed", "refused"}

\* the competence_profile rows of a person, and the availability ids of a person
ProfilesOf(table, person_id) == { r \in table : r.person_id = person_id }
AvailabilitiesOf(table, person_id) ==
  { id \in DOMAIN table : table[id].person_id = person_id }

\* no competence_id occurs twice in the list
DistinctCompetences(competencies) ==
  \A i, j \in DOMAIN competencies :
    competencies[i].competence_id = competencies[j].competence_id => i = j

\* C4: when a step of submitApplication has failed (here: the promise of one
\* of the per-row updates was rejected), the call has raised an error and
\* rollback was invoked on its transaction.
C4_FailureRollsBack ==
  \A c \in Clients :
    ( IsSubmit(c) /\ pc[c] = "returned" /\ SomeUpdateRejected(c) )
    => ( ret[c].kind = "error" /\ t[c].state \in {"rollback", "rolledback"} )

\* C5: when submitApplication has returned, its transaction has finished: after
\* "success" the commit is complete and every per-row update is done, after
\* an error the rollback is complete.
C5_FinishedOnReturn ==
  \A c \in Clients :
    ( IsSubmit(c) /\ pc[c] = "returned" /\ t[c].state # "none" )
    => IF ret[c] = Success
         THEN /\ t[c].state = "committed"
              /\ \A i \in DOMAIN updates[c] : updates[c][i] = "fulfilled"
         ELSE t[c].state = "rolledback"

\* C6: with one call at a time and no failing statement, once a successful
\* submitApplication (each competence listed once) has nothing left to run
\* and its commit is complete, the table holds exactly one row for each
\* submitted (person, competence) pair, with the submitted
\* years_of_experience: a resubmission's value has replaced the earlier one.
C6_LatestValueWins ==
  [][ \A c \in Clients :
        ( /\ IsSubmit(c) /\ ret[c] = Success
          /\ ~Quiescent(c) /\ Quiescent(c)'
          /\ t'[c].state = "committed" /\ ~t'[c].aborted
          /\ \A i \in DOMAIN updates'[c] : updates'[c][i] # "failed"
          /\ DistinctCompetences(call[c].competencies) )
        => \A i \in DOMAIN call[c].competencies :
             LET rows == { r \in competence_profile' :
                             /\ r.person_id = call[c].person_id
                             /\ r.competence_id = call[c].competencies[i].competence_id }
             IN  /\ Cardinality(rows) = 1
                 /\ \A r \in rows :
                      r.years_of_experience = call[c].competencies[i].years_of_experience
    ]_vars

\* C7: the competence_profile table never holds two rows for one
\* (person_id, competence_id) pair.
C7_OneRowPerPair ==
  \A r, s \in competence_profile :
    (r.person_id = s.person_id /\ r.competence_id = s.competence_id) => r = s

\* two submissions of one person for the same competence with different
\* years are under way at once, both with their commit in flight, one of
\* them listing the competence twice
C7_Witness ==
  \E c, d \in Clients :
    /\ c # d
    /\ IsSubmit(c) /\ IsSubmit(d)
    /\ t[c].state = "commit" /\ t[d].state = "commit"
    /\ call[c].person_id = call[d].person_id
    /\ Len(call[c].competencies) = 2
    /\ ~DistinctCompetences(call[c].competencies)
    /\ \E i \in DOMAIN call[c].competencies, j \in DOMAIN call[d].competencies :
         /\ call[c].competencies[i].competence_id = call[d].competencies[j].competence_id
         /\ call[c].competencies[i].years_of_experience
              # call[d].competencies[j].years_of_experience

\* C8: when the commit of a submission by a person without rows completes
\* (N competencies of distinct competence_id, M periods, no failed statement),
\* the person has exactly N competence_profile rows, each with the submitted
\* years_of_experience, and exactly M availability rows, each with
\* version_number 0 and the initial status.
C8_RowsOfSubmission ==
  [][ \A c \in Clients :
        ( /\ IsSubmit(c)
          /\ t[c].state = "commit" /\ t'[c].state = "committed" /\ ~t[c].aborted
          /\ \A i \in DOMAIN updates[c] : updates[c][i] # "failed"
          /\ DistinctCompetences(call[c].competencies)
          /\ ProfilesOf(competence_profile, call[c].person_id) = {}
          /\ AvailabilitiesOf(availability, call[c].person_id) = {} )
        => /\ ProfilesOf(competence_profile', call[c].person_id)
                = { [person_id |-> call[c].person_id,
                     competence_id |-> call[c].competencies[i].competence_id,
                     years_of_experience |-> call[c].competencies[i].years_of_experience]
                    : i \in DOMAIN call[c].competencies }
           /\ Cardinality(ProfilesOf(competence_profile', call[c].person_id))
                = Len(call[c].competencies)
           /\ Cardinality(AvailabilitiesOf(availability', call[c].person_id))
                = Len(call[c].periods)
           /\ \A id \in AvailabilitiesOf(availability', call[c].person_id) :
                /\ availability'[id].version_number = 0
                /\ availability'[id].application_status = DefaultStatus
    ]_vars

\* C9 as claimed: a submitApplication whose username matches no person opens
\* no transaction (the username is resolved first), fails with an error and
\* writes no row.
C9_ResolvedBeforeTransaction ==
  \A c \in Clients :
    ( IsSubmit(c) /\ UnknownUsername(c) )
    => /\ t[c].state = "none"
       /\ updates[c] = <<>>
       /\ pc[c] = "returned" => ret[c].kind = "error"

\* C9 as amended: a submitApplication whose username matches no person has
\* its transaction open when the lookup returns null; it then invokes
\* rollback on that transaction and raises the error with the operation's
\* prefix; the transaction holds no write, no per-row update is started, and
\* no row is written.
C9_UnknownUsername ==
  /\ [] ( \A c \in Clients :
            ( IsSubmit(c) /\ UnknownUsername(c) /\ t[c].state # "none" )
            => /\ t[c].state \in {"open", "rollback", "rolledback"}
               /\ t[c].profiles = <<>> /\ t[c].updated = <<>>
               /\ t[c].availabilities = <<>>
               /\ updates[c] = <<>> )
  /\ [][ \A c \in Clients :
           ( IsSubmit(c) /\ UnknownUsername(c) )
           => /\ (pc[c] = "findPerson") => /\ t[c].state = "open"
                                         /\ pc'[c] \in {"findPerson", "returned"}
              /\ (pc[c] = "findPerson" /\ pc'[c] = "returned")
                   => /\ t'[c].state = "rollback"
                      /\ ret'[c].kind = "error"
                      /\ ret'[c].prefix = SubmitPrefix
                      /\ ret'[c].cause \in {TypeErrorNull, DriverError}
              /\ (pc[c] # "idle" /\ \A d \in Clients \ {c} : pc'[d] = pc[d] /\ t'[d] = t[d])
                   => /\ competence_profile' = competence_profile
                      /\ availability' = availability
       ]_vars

\* the call for the unknown username has failed on the null lookup and its
\* rollback is complete, while an earlier submission has rows committed
C9_Witness ==
  \E c \in Clients :
    /\ IsSubmit(c) /\ UnknownUsername(c)
    /\ pc[c] = "returned"
    /\ ret[c] = Failure(SubmitPrefix, TypeErrorNull, -1)
    /\ t[c].state = "rolledback"
    /\ competence_profile # {}

(* ------------------------------ errors: claims ------------------------- *)

\* the prefix the errors of client c's operation carry
PrefixOf(c) == IF IsSubmit(c) THEN SubmitPrefix ELSE UpdatePrefix

\* C11: a call that has returned with an error raised it with its
\* operation's prefix, and nothing the call started has failed behind the
\* caller's back: no per-row update promise was rejected and the commit did
\* not fail.
C11_PrefixedErrors ==
  \A c \in Clients :
    ( pc[c] = "returned" /\ call[c] # NoCall )
    => /\ ret[c].kind = "error" => ret[c].prefix = PrefixOf(c)
       /\ ~SomeUpdateRejected(c)
       /\ t[c].state # "failed"

Chars ==
  ("1" :> <<"1">>) @@
  ("3" :> <<"3">>) @@
  ("0" :> <<"0">>) @@
  ("-1" :> <<"-", "1">>) @@
  ("2x" :> <<"2", "x">>) @@
  ("01" :> <<"0", "1">>) @@
  ("x" :> <<"x">>) @@
  ("alice@kth.se" :> <<"a", "l", "i", "c", "e", "@", "k", "t", "h", ".", "s", "e">>) @@
  ("nobody@kth.se" :> <<"n", "o", "b", "o", "d", "y", "@", "k", "t", "h", ".", "s", "e">>) @@
  ("carol@kth.se" :> <<"c", "a", "r", "o", "l", "@", "k", "t", "h", ".", "s", "e">>) @@
  ("nobody" :> <<"n", "o", "b", "o", "d", "y">>) @@
  ("no body@kth.se" :> <<"n", "o", " ", "b", "o", "d", "y", "@", "k", "t", "h", ".", "s", "e">>) @@
  ("@kth.se" :> <<"@", "k", "t", "h", ".", "s", "e">>) @@
  ("nobody@" :> <<"n", "o", "b", "o", "d", "y", "@">>) @@
  ("" :> <<>>) @@
  ("alice" :> <<"a", "l", "i", "c", "e">>) @@
  ("ghost" :> <<"g", "h", "o", "s", "t">>) @@
  ("al ice" :> <<"a", "l", " ", "i", "c", "e">>) @@
  ("bob!" :> <<"b", "o", "b", "!">>) @@
  ("carol" :> <<"c", "a", "r", "o", "l">>) @@
  ("pw1" :> <<"p", "w", "1">>)

Lower == { "a", "b", "c", "d", "e", "f", "g", "h", "i", "j", "k", "l", "m", "n", "o", "p", "q", "r", "s", "t", "u", "v", "w", "x", "y", "z" }
Upper == { "A", "B", "C", "D", "E", "F", "G", "H", "I", "J", "K", "L", "M", "N", "O", "P", "Q", "R", "S", "T", "U", "V", "W", "X", "Y", "Z" }
DigitChars == <<"0", "1", "2", "3", "4", "5", "6", "7", "8", "9">>
Digit == { DigitChars[i] : i \in DOMAIN DigitChars }
DigitValue(ch) == (CHOOSE i \in DOMAIN DigitChars : DigitChars[i] = ch) - 1

\* [a-zA-Z0-9]
Alphanumeric == Lower \cup Upper \cup Digit
\* the class before the @ of emailForm: letters, digits and the listed signs
\* (the class also has the backquote, which no input contains)
EmailLocal ==
  Alphanumeric \cup {".", "!", "#", "$", "%", "&", "'", "*", "+", "/", "=", "?",
                     "^", "_", "{", "|", "}", "~", "-"}
\* [a-zA-Z0-9-], the class of a label after the @
EmailLabel == Alphanumeric \cup {"-"}

\* how many characters of s from position i on belong to class
RECURSIVE Run(_, _, _)
Run(s, i, class) ==
  IF i <= Len(s) /\ s[i] \in class THEN 1 + Run(s, i + 1, class) ELSE 0

\* parseInt(value): leading blanks, a sign, then the digits up to the first
\* character that is none; NaN when there is no digit
ParseIntStart(s) == 1 + Run(s, 1, {" "})
ParseIntSigned(s) ==
  ParseIntStart(s) <= Len(s) /\ s[ParseIntStart(s)] \in {"-", "+"}
ParseIntDigits(s) == ParseIntStart(s) + (IF ParseIntSigned(s) THEN 1 ELSE 0)
ParseIntIsNaN(s) == Run(s, ParseIntDigits(s), Digit) = 0
RECURSIVE DigitsValue(_, _, _, _)
DigitsValue(s, i, n, acc) ==
  IF n = 0 THEN acc ELSE DigitsValue(s, i + 1, n - 1, 10 * acc + DigitValue(s[i]))
ParseInt(s) ==
  LET magnitude == DigitsValue(s, ParseIntDigits(s), Run(s, ParseIntDigits(s), Digit), 0)
  IN  IF ParseIntSigned(s) /\ s[ParseIntStart(s)] = "-" THEN 0 - magnitude ELSE magnitude

\* n.toString().length
RECURSIVE DecimalLength(_)
DecimalLength(n) == IF n < 10 THEN 1 ELSE 1 + DecimalLength(n \div 10)
ToStringLength(n) == IF n < 0 THEN 1 + DecimalLength(0 - n) ELSE DecimalLength(n)

\* Validators.isNumber: !isNaN(parseInt(value)) &&
\* parseInt(value).toString().length == value.toString().length
IsNumber(value) ==
  /\ ~ParseIntIsNaN(Chars[value])
  /\ ToStringLength(ParseInt(Chars[value])) = Len(Chars[value])

\* IsPositiveInteger without the assert of value > 0
IsPositiveIntegerUnsigned(value) == IsNumber(value)

\* Validators.isPositiveInteger: isNumber, then value > 0
IsPositiveInteger(value) == IsNumber(value) /\ ParseInt(Chars[value]) > 0

\* the labels after the @: one or more characters of the class each, with a
\* dot between two of them, up to the end of the string
RECURSIVE Labels(_, _)
Labels(s, i) ==
  LET n == Run(s, i, EmailLabel)
  IN  /\ n > 0
      /\ \/ i + n = Len(s) + 1
         \/ /\ i + n <= Len(s)
            /\ s[i + n] = "."
            /\ Labels(s, i + n + 1)

\* Validators.isEmailValid: emailForm.test(emailInput)
IsEmailValid(emailInput) ==
  LET s == Chars[emailInput]
      n == Run(s, 1, EmailLocal)
  IN  /\ n > 0
      /\ n + 1 <= Len(s)
      /\ s[n + 1] = "@"
      /\ Labels(s, n + 2)

\* Validators.isStringNonZeroLength, for a value that is a string
IsStringNonZeroLength(value) == Len(Chars[value]) > 0

\* Validators.isAlphanumericString, for a value that is a string
IsAlphanumericString(value) ==
  Len(Chars[value]) > 0 /\ \A i \in DOMAIN Chars[value] : Chars[value][i] \in Alphanumeric

(* --------------------------- person operations ------------------------- *)

\* rows the person table may hold (savePerson is not started beyond it)
MaxPersons == 3
\* availability rows of the tables that the read operations start from
MaxRows == 2

\* role_id of an applicant (savePerson) and of a recruiter (isRecruiter)
ApplicantRole == 2
RecruiterRole == 1
\* the role_id a new person row gets when the created object has none
DefaultRole == 2

FindPrefix == "could not find person."
CreatePrefix == "Could not create person."
PasswordPrefix == "Could not set user password"
ApplicationsPrefix == "could not find all applications."
\* error.message of a failed assert of the validators
AssertionError == "AssertionError"

\* JavaScript undefined
Undefined == [undefined |-> TRUE]
\* the call returned v
Value(v) == [kind |-> "value", value |-> v]

\* the ids, emails, usernames and passwords a caller may pass
IdInputs == {"1", "3", "0", "-1", "2x", "01", "x"}
EmailInputs ==
  {"alice@kth.se", "nobody@kth.se", "carol@kth.se", "nobody", "no body@kth.se",
   "@kth.se", "nobody@", ""}
UsernameInputs == {"alice", "ghost", "", "al ice", "bob!"}
PasswordInputs == {"pw1", ""}

\* the person records a caller may pass to savePerson: without a role_id, and
\* with either role
PersonInputs ==
  LET carol == [name |-> "Carol", surname |-> "Dahl", ssn |-> "ssn3",
                email |-> "carol@kth.se", password |-> "pw0", username |-> "carol"]
  IN  {carol} \cup { Spread(carol, [role_id |-> r]) : r \in {RecruiterRole, ApplicantRole} }

\* createPersonDto(personModel)
CreatePersonDto(personModel) ==
  [person_id |-> personModel.person_id, name |-> personModel.name,
   surname |-> personModel.surname, ssn |-> personModel.ssn,
   email |-> personModel.email, password |-> personModel.password,
   role_id |-> personModel.role_id, username |-> personModel.username]

\* one of findPersonById, findPersonByEmail, findPersonByUsername: the
\* validators run first and raise as they are; then findPersonByParameter
\* issues its query and wraps what the query raises
Lookup(c, op, arg, valid, key, param, ok) ==
  /\ pc' = [pc EXCEPT ![c] = "returned"]
  /\ call' = [call EXCEPT ![c] =
       [op |-> op, arg |-> arg, queries |-> IF valid THEN 1 ELSE 0]]
  /\ ret' = [ret EXCEPT ![c] =
       IF ~valid THEN Failure("", AssertionError, -1)
       ELSE IF ~ok THEN Failure(FindPrefix, DriverError, -1)
       ELSE LET found == FindPersonByParameter(key, param)
            IN  IF found = Null THEN Value(Null) ELSE Value(CreatePersonDto(found))]
  /\ UNCHANGED <<competence_profile, availability, t, updates, person, web>>

FindPersonById(c) ==
  /\ pc[c] = "idle"
  /\ \E id \in IdInputs, ok \in BOOLEAN :
       Lookup(c, "findPersonById", id, IsPositiveInteger(id),
              "person_id", ParseInt(Chars[id]), ok)

FindPersonByEmail(c) ==
  /\ pc[c] = "idle"
  /\ \E email \in EmailInputs, ok \in BOOLEAN :
       Lookup(c, "findPersonByEmail", email, IsEmailValid(email), "email", email, ok)

FindPersonByUsername(c) ==
  /\ pc[c] = "idle"
  /\ \E username \in UsernameInputs, ok \in BOOLEAN :
       Lookup(c, "findPersonByUsername", username,
              IsStringNonZeroLength(username) /\ IsAlphanumericString(username),
              "username", username, ok)

\* the id a new row of the person table gets
NextPersonId(table) ==
  1 + (CHOOSE m \in {0} \cup {r.person_id : r \in table} :
         \A r \in table : r.person_id <= m)

\* Person.create(object): the object's own fields, and the column default
\* where it has no role_id
PersonCreate(table, object) ==
  [person_id |-> NextPersonId(table), name |-> object.name,
   surname |-> object.surname, ssn |-> object.ssn, email |-> object.email,
   password |-> object.password, username |-> object.username,
   role_id |-> IF "role_id" \in DOMAIN object THEN object.role_id ELSE DefaultRole]

\* person = {...person, role_id: 2}
WithApplicantRole(object) == Spread(object, [role_id |-> ApplicantRole])

\* savePerson of the DAO (part_000)
SavePerson(c) ==
  /\ pc[c] = "idle"
  /\ Cardinality(person) < MaxPersons
  /\ \E object \in PersonInputs, ok \in BOOLEAN :
       /\ call' = [call EXCEPT ![c] = [op |-> "savePerson", person |-> object]]
       /\ IF ok
            THEN /\ person' = person \cup {PersonCreate(person, WithApplicantRole(object))}
                 /\ ret' = [ret EXCEPT ![c] = Success]
            ELSE /\ person' = person
                 /\ ret' = [ret EXCEPT ![c] = Failure(CreatePrefix, DriverError, -1)]
  /\ pc' = [pc EXCEPT ![c] = "returned"]
  /\ UNCHANGED <<competence_profile, availability, t, updates, web>>

\* savePerson of integration/dao.js: return Person.create(person), not
\* awaited, so the catch block never runs
SavePersonCreate(c) ==
  /\ pc[c] = "idle"
  /\ Cardinality(person) < MaxPersons
  /\ \E object \in PersonInputs, ok \in BOOLEAN :
       /\ call' = [call EXCEPT ![c] = [op |-> "savePerson", person |-> object]]
       /\ IF ok
            THEN /\ person' = person \cup {PersonCreate(person, object)}
                 /\ ret' = [ret EXCEPT ![c] = Value(PersonCreate(person, object))]
            ELSE /\ person' = person
                 /\ ret' = [ret EXCEPT ![c] = Failure("", DriverError, -1)]
  /\ pc' = [pc EXCEPT ![c] = "returned"]
  /\ UNCHANGED <<competence_profile, availability, t, updates, web>>

\* Person.update({password}, {where: {email}}): every row with the email
PersonUpdatePassword(table, email, password) ==
  { IF r.email = email THEN [r EXCEPT !.password = password] ELSE r : r \in table }

\* setPersonPassword: the validators run inside the try block
SetPersonPassword(c) ==
  /\ pc[c] = "idle"
  /\ \E email \in EmailInputs, password \in PasswordInputs, ok \in BOOLEAN :
       /\ call' = [call EXCEPT ![c] =
            [op |-> "setPersonPassword", email |-> email, password |-> password]]
       /\ IF ~(IsEmailValid(email) /\ IsStringNonZeroLength(password))
            THEN /\ person' = person
                 /\ ret' = [ret EXCEPT ![c] = Failure(PasswordPrefix, AssertionError, -1)]
          ELSE IF ~ok
            THEN /\ person' = person
                 /\ ret' = [ret EXCEPT ![c] = Failure(PasswordPrefix, DriverError, -1)]
          ELSE /\ person' = PersonUpdatePassword(person, email, password)
               /\ ret' = [ret EXCEPT ![c] = Value(Undefined)]
  /\ pc' = [pc EXCEPT ![c] = "returned"]
  /\ UNCHANGED <<competence_profile, availability, t, updates, web>>

\* include Person, required: true: the availability's person row
IncludedPerson(table, row) == { r \in table : r.person_id = row.person_id }

\* required: true, on the include of Person
PersonRequired == TRUE

\* ProfileRequired with required: true written for required: false
ProfileRequiredToo == TRUE

\* required: false, on the include of CompetenceProfile
ProfileRequired == FALSE

\* a row stays in the result unless a required include matches nothing
Keeps(required, included) == ~required \/ included # {}

\* include CompetenceProfile, required: false, with its Competence, required:
\* true: the profiles of the availability's person whose competence exists;
\* none is an empty list
IncludedProfiles(table, row) ==
  { [competence_id |-> r.competence_id,
     years_of_experience |-> r.years_of_experience]
    : r \in { q \in table : q.person_id = row.person_id
                             /\ q.competence_id \in Competences } }

\* Availability.findAll with its includes, turned into the application array:
\* one entry for each availability that the required includes keep
FindAll(availabilities, persons, profiles) ==
  LET Kept(id) == /\ Keeps(PersonRequired, IncludedPerson(persons, availabilities[id]))
                  /\ Keeps(ProfileRequired, IncludedProfiles(profiles, availabilities[id]))
      ids == SelectSeq([id \in DOMAIN availabilities |-> id], Kept)
  IN  [i \in DOMAIN ids |->
         LET row == availabilities[ids[i]]
             owner == CHOOSE r \in IncludedPerson(persons, row) : TRUE
         IN  [availability_id |-> ids[i], from_date |-> row.from_date,
              to_date |-> row.to_date, application_status |-> row.application_status,
              version_number |-> row.version_number,
              name |-> owner.name, surname |-> owner.surname,
              competence_profiles |-> IncludedProfiles(profiles, row)]]

\* findAllApplications
FindAllApplications(c) ==
  /\ pc[c] = "idle"
  /\ \E ok \in BOOLEAN :
       ret' = [ret EXCEPT ![c] =
         IF ok THEN Value(FindAll(availability, person, competence_profile))
               ELSE Failure(ApplicationsPrefix, DriverError, -1)]
  /\ call' = [call EXCEPT ![c] = [op |-> "findAllApplications"]]
  /\ pc' = [pc EXCEPT ![c] = "returned"]
  /\ UNCHANGED <<competence_profile, availability, t, updates, person, web>>

\* the tables that the person operations start from: any profiles of the
\* registered persons, and up to MaxRows availability rows as
\* submitApplication stores them
PersonInit ==
  /\ competence_profile \in
       SUBSET [person_id : {r.person_id : r \in Registered},
               competence_id : Competences, years_of_experience : {1}]
  /\ availability \in
       UNION { [1..n -> { AvailabilityRow(Availabilities(r.person_id,
                            <<[from_date |-> "2024-01-01", to_date |-> "2024-01-10"]>>)[1])
                          : r \in Registered }]
               : n \in 0..MaxRows }
  /\ pc = [c \in Clients |-> "idle"]
  /\ call = [c \in Clients |-> NoCall]
  /\ t = [c \in Clients |-> NoTransaction]
  /\ updates = [c \in Clients |-> <<>>]
  /\ ret = [c \in Clients |-> NoResult]
  /\ person = Registered
  /\ http = NoRequest
  /\ loader = NewLoader

\* one call of a person operation or of findAllApplications by client c
PersonStep(c) ==
  \/ FindPersonById(c)
  \/ FindPersonByEmail(c)
  \/ FindPersonByUsername(c)
  \/ SavePerson(c)
  \/ SavePersonCreate(c)
  \/ SetPersonPassword(c)
  \/ FindAllApplications(c)
  \/ Forget(c)

PersonNext == PersonStep("c1")

PersonSpec == PersonInit /\ [][PersonNext]_vars

(* ------------------------ person operations: claims -------------------- *)

\* client c's call of operation op has returned
Returned(c, op) == pc[c] = "returned" /\ call[c].op = op

\* C12: every person that a savePerson has stored holds the applicant role,
\* whatever role_id the caller's record contained.
C12_ApplicantRole ==
  \A r \in person \ Registered : r.role_id = ApplicantRole

\* the inputs of the lookups by kind: well-formed ones, and the ones that
\* fail validation (a non-positive id, a malformed email, an empty or a
\* non-alphanumeric username)
WellFormed ==
  [findPersonById |-> {"1", "3"},
   findPersonByEmail |-> {"alice@kth.se", "nobody@kth.se", "carol@kth.se"},
   findPersonByUsername |-> {"alice", "ghost"}]
Invalid ==
  [findPersonById |-> {"0", "-1"},
   findPersonByEmail |-> {"nobody", "no body@kth.se", "@kth.se", "nobody@", ""},
   findPersonByUsername |-> {"", "al ice", "bob!"}]
\* the rows of the person table that a well-formed input matches
Matching(op, arg) ==
  CASE op = "findPersonById" ->
         { r \in person : r.person_id = (("1" :> 1) @@ ("3" :> 3))[arg] }
    [] op = "findPersonByEmail" -> { r \in person : r.email = arg }
    [] op = "findPersonByUsername" -> { r \in person : r.username = arg }

\* C13: a lookup with a well-formed input that matches no person returns
\* null and does not raise (unless the query itself fails); a lookup whose
\* input fails validation raises, and no query was issued.
C13_NullOrFailFast ==
  \A c \in Clients :
    \A op \in DOMAIN WellFormed :
      Returned(c, op) =>
        /\ ( /\ call[c].arg \in WellFormed[op]
             /\ Matching(op, call[c].arg) = {}
             /\ ret[c] # Failure(FindPrefix, DriverError, -1) )
           => ( ret[c] = Value(Null) /\ call[c].queries = 1 )
        /\ call[c].arg \in Invalid[op]
           => ( ret[c].kind = "error" /\ call[c].queries = 0 )

\* a lookup by a well-formed email that matches none of the three stored
\* persons has returned null
C13_Witness ==
  \E c \in Clients :
    /\ Returned(c, "findPersonByEmail")
    /\ call[c].arg = "nobody@kth.se"
    /\ call[c].queries = 1
    /\ ret[c] = Value(Null)
    /\ Cardinality(person) = 3

\* C14: what findAllApplications returns holds exactly one entry for every
\* stored availability row, with the name and surname of the row's person and
\* that person's competence profiles; a row whose person has no profile is
\* there with an empty profile list.
C14_EveryAvailability ==
  \A c \in Clients :
    ( Returned(c, "findAllApplications") /\ ret[c].kind = "value" )
    => LET result == ret[c].value
       IN  /\ Len(result) = Len(availability)
           /\ \A id \in DOMAIN availability :
                /\ Cardinality({ i \in DOMAIN result : result[i].availability_id = id }) = 1
                /\ \A i \in DOMAIN result :
                     result[i].availability_id = id
                     => /\ \E r \in person :
                             /\ r.person_id = availability[id].person_id
                             /\ result[i].name = r.name
                             /\ result[i].surname = r.surname
                        /\ result[i].competence_profiles
                             = { [competence_id |-> q.competence_id,
                                  years_of_experience |-> q.years_of_experience]
                                 : q \in ProfilesOf(competence_profile,
                                                    availability[id].person_id) }

\* findAllApplications has returned two entries of different persons, one
\* with an empty profile list and one with two profiles
C14_Witness ==
  \E c \in Clients :
    /\ Returned(c, "findAllApplications")
    /\ ret[c].kind = "value"
    /\ Len(ret[c].value) = 2
    /\ ret[c].value[1].competence_profiles = {}
    /\ Cardinality(ret[c].value[2].competence_profiles) = 2
    /\ ret[c].value[1].name # ret[c].value[2].name

JwtSecret == "JWT_SECRET"
JwtPutSecret == "JWT_PUT_SECRET"

\* HTTP status codes of the responses
Forbidden == 403
NotFound == 404
Ok == 200

\* payload of an access token (the person who logged in) and of a put token
PersonPayload(role_id) == [person |-> [username |-> "alice", role_id |-> role_id]]
PutPayload == [email |-> "alice@kth.se"]

\* the tokens a request may carry: access tokens of a recruiter and of an
\* applicant, one of them expired, and one whose payload names no person; a
\* put token; a token signed by someone else
Tokens ==
  { [signed |-> JwtSecret, expired |-> FALSE, payload |-> PersonPayload(r)]
    : r \in {RecruiterRole, ApplicantRole} }
  \cup { [signed |-> JwtSecret, expired |-> TRUE, payload |-> PersonPayload(RecruiterRole)],
         [signed |-> JwtSecret, expired |-> FALSE, payload |-> PutPayload],
         [signed |-> JwtPutSecret, expired |-> FALSE, payload |-> PutPayload],
         [signed |-> "forged", expired |-> FALSE, payload |-> PersonPayload(RecruiterRole)] }

\* req.headers["authorization"]: absent, or the parts that single blanks
\* separate (a scheme alone, or a scheme and a token)
Headers ==
  { [defined |-> FALSE, parts |-> <<>>], [defined |-> TRUE, parts |-> <<"Bearer">>] }
  \cup { [defined |-> TRUE, parts |-> <<"Bearer", token>>] : token \in Tokens }

\* bearerHeader.split(" ")[1]
SplitSecond(bearerHeader) ==
  IF Len(bearerHeader.parts) >= 2 THEN bearerHeader.parts[2] ELSE Undefined

\* VerifyJwt without the check of the signature
VerifyJwtUnsigned(token, secret) ==
  /\ token # Undefined
  /\ ~token.expired

\* jwt.verify(token, secret, callback) calls back without err
VerifyJwt(token, secret) ==
  /\ token # Undefined
  /\ token.signed = secret
  /\ ~token.expired

\* object.person, undefined when the object has no such property
PersonOf(object) == IF "person" \in DOMAIN object THEN object.person ELSE Undefined

\* the middleware chains a request may run through
Chains ==
  { <<"verifyToken", "list">>, <<"verifyToken", "isRecruiter">>,
    <<"verifyUpdatePerson", "isRecruiter">>, <<"verifyUpdatePerson">> }

\* what a middleware did: sent a response, called next, or threw
Event(by, does, status) == [by |-> by, does |-> does, status |-> status]

\* res.status(status).send(...): the chain ends
Send(h, status) ==
  [h EXCEPT !.log = Append(@, Event(h.chain[h.at], "send", status)), !.stage = "done"]

\* next(): the next middleware of the chain runs
CallNext(h) ==
  [h EXCEPT !.log = Append(@, Event(h.chain[h.at], "next", 0)),
            !.at = @ + 1,
            !.stage = IF h.at + 1 > Len(h.chain) THEN "done" ELSE "run"]

\* an exception leaves the middleware
Throw(h) ==
  [h EXCEPT !.log = Append(@, Event(h.chain[h.at], "throw", 0)), !.stage = "done"]

\* the variables that the middleware leaves alone
dao == <<competence_profile, availability, pc, call, t, updates, ret, person>>

\* a request arrives
Request ==
  /\ http.stage = "none"
  /\ \E chain \in Chains, header \in Headers :
       http' = [stage |-> "run", chain |-> chain, at |-> 1, header |-> header,
                auth |-> Undefined, log |-> <<>>]
  /\ UNCHANGED <<dao, loader>>

Runs(middleware) == http.stage = "run" /\ http.chain[http.at] = middleware

\* verifyToken(req, res, next)
VerifyToken ==
  /\ Runs("verifyToken")
  /\ http' =
       IF http.header.defined
         THEN LET token == SplitSecond(http.header)
              IN  IF VerifyJwt(token, JwtSecret)
                    THEN CallNext([http EXCEPT !.auth = PersonOf(token.payload)])
                    ELSE Send(http, Forbidden)
         ELSE Send(http, Forbidden)
  /\ UNCHANGED <<dao, loader>>

\* verifyUpdatePerson(req, res, next)
VerifyUpdatePerson ==
  /\ Runs("verifyUpdatePerson")
  /\ http' =
       IF http.header.defined
         THEN LET token == SplitSecond(http.header)
              IN  IF VerifyJwt(token, JwtSecret)
                    THEN CallNext([http EXCEPT !.auth = PersonOf(token.payload)])
                  ELSE IF VerifyJwt(token, JwtPutSecret)
                    THEN CallNext([http EXCEPT !.auth = token.payload])
                  ELSE Send(http, Forbidden)
         ELSE Send(http, Forbidden)
  /\ UNCHANGED <<dao, loader>>

\* IsRecruiterRole with every known role let through
IsAnyRole(auth) ==
  "role_id" \in DOMAIN auth /\ auth.role_id \in {RecruiterRole, ApplicantRole}

\* req.body.auth.role_id == 1
IsRecruiterRole(auth) == "role_id" \in DOMAIN auth /\ auth.role_id = RecruiterRole

\* isRecruiter(req, res, next); reading role_id of an undefined auth throws
IsRecruiter ==
  /\ Runs("isRecruiter")
  /\ http' = IF http.auth = Undefined THEN Throw(http)
             ELSE IF IsRecruiterRole(http.auth) THEN CallNext(http)
             ELSE Send(http, Forbidden)
  /\ UNCHANGED <<dao, loader>>

(* ------------------------ GET /competence/list handler ----------------- *)

\* what await this.contr.getAllCompetences() may give
ListOutcomes == {"list", "null", "raise"}

\* the handler of GET /list up to its await
ListHandler ==
  /\ Runs("list")
  /\ http' = [http EXCEPT !.stage = "await"]
  /\ UNCHANGED <<dao, loader>>

\* the handler after the await: 200 with the list, 404 for null; in the catch
\* block 404 and then next(err)
ListHandlerResumes ==
  /\ http.stage = "await"
  /\ \E outcome \in ListOutcomes :
       http' = CASE outcome = "list" -> Send(http, Ok)
                 [] outcome = "null" -> Send(http, NotFound)
                 [] outcome = "raise" -> CallNext(Send(http, NotFound))
  /\ UNCHANGED <<dao, loader>>

\* the request is over
EndRequest ==
  /\ http.stage = "done"
  /\ http' = NoRequest
  /\ UNCHANGED <<dao, loader>>

(* --------------------------- RequestHandlerLoader ---------------------- *)

\* request handlers that addRequestHandler may take
MaxHandlers == 2
Handlers == {"PersonApi", "CompetenceAPI"}

\* addRequestHandler(reqHandler)
AddRequestHandler(reqHandler) ==
  /\ loader.stage = "adding"
  /\ Len(loader.reqHandlers) < MaxHandlers
  /\ loader' = [loader EXCEPT !.reqHandlers = Append(@, reqHandler)]
  /\ UNCHANGED <<dao, http>>

\* the forEach of loadHandlers from the i-th handler on: registerHandler() is
\* called and runs up to its await of retrieveController, its promise is
\* dropped, and the handler's router is mounted
RECURSIVE ForEach(_, _)
ForEach(l, i) ==
  IF i > Len(l.reqHandlers) THEN l
  ELSE ForEach([l EXCEPT !.awaiting = @ \cup {i},
                         !.mounted = Append(@, l.reqHandlers[i])], i + 1)

\* loadHandlers(app), up to its return
LoadHandlers ==
  /\ loader.stage = "adding"
  /\ loader' = [ForEach(loader, 1) EXCEPT !.stage = "loaded"]
  /\ UNCHANGED <<dao, http>>

\* registerHandler of the i-th handler after its await: the routes are
\* registered on the router, or, when retrieveController failed, the error is
\* logged and no route is registered
RegisterHandlerResumes(i, ok) ==
  /\ i \in loader.awaiting
  /\ loader' = [loader EXCEPT !.awaiting = @ \ {i},
                              !.routes = IF ok THEN @ \cup {i} ELSE @]
  /\ UNCHANGED <<dao, http>>

\* requests through the middleware, and the loading of the request handlers
ApiNext ==
  \/ Request
  \/ VerifyToken
  \/ VerifyUpdatePerson
  \/ IsRecruiter
  \/ ListHandler
  \/ ListHandlerResumes
  \/ EndRequest
  \/ \E reqHandler \in Handlers : AddRequestHandler(reqHandler)
  \/ LoadHandlers
  \/ \E i \in loader.awaiting, ok \in BOOLEAN : RegisterHandlerResumes(i, ok)

ApiSpec == Init /\ [][ApiNext]_vars

(* ------------------------------ API: claims ---------------------------- *)

\* what the middleware named by did, in order
EventsBy(by) ==
  LET By(e) == e.by = by IN SelectSeq(http.log, By)

\* the k-th middleware of the request's chain is the named one and has run
HasRun(k, middleware) ==
  /\ http.stage # "none"
  /\ k <= Len(http.chain)
  /\ http.chain[k] = middleware
  /\ \/ http.at > k
     \/ http.at = k /\ http.stage = "done"

\* the request carries a token that is not expired and is signed with one of
\* the secrets
CarriesTokenOf(secrets) ==
  /\ http.header.defined
  /\ Len(http.header.parts) >= 2
  /\ http.header.parts[2].signed \in secrets
  /\ ~http.header.parts[2].expired

\* C17: verifyToken and verifyUpdatePerson each do exactly one thing, once:
\* send 403 or call next(); next() only for a token that verifies against
\* JWT_SECRET (for verifyUpdatePerson also JWT_PUT_SECRET); a request without
\* authorization header gets the 403.
C17_ForbiddenOrNext ==
  \A m \in {"verifyToken", "verifyUpdatePerson"} :
    HasRun(1, m) =>
      /\ \/ EventsBy(m) = <<Event(m, "send", Forbidden)>>
         \/ EventsBy(m) = <<Event(m, "next", 0)>>
      /\ EventsBy(m) = <<Event(m, "next", 0)>>
           => CarriesTokenOf(IF m = "verifyToken" THEN {JwtSecret}
                                                   ELSE {JwtSecret, JwtPutSecret})
      /\ ~http.header.defined => EventsBy(m) = <<Event(m, "send", Forbidden)>>

\* verifyUpdatePerson has let a request with a put token through, which
\* verifyToken refuses
C17_Witness ==
  /\ HasRun(1, "verifyUpdatePerson")
  /\ http.header.defined
  /\ Len(http.header.parts) = 2
  /\ http.header.parts[2].signed = JwtPutSecret
  /\ http.auth = PutPayload
  /\ EventsBy("verifyUpdatePerson") = <<Event("verifyUpdatePerson", "next", 0)>>

\* C18: for an authenticated identity, isRecruiter calls next() and sends
\* nothing when the identity's role_id is 1, and sends 403 without calling
\* next() for any other role_id (or none).
C18_RecruiterOnly ==
  ( HasRun(2, "isRecruiter") /\ http.auth # Undefined ) =>
    IF "role_id" \in DOMAIN http.auth /\ http.auth.role_id = 1
      THEN EventsBy("isRecruiter") = <<Event("isRecruiter", "next", 0)>>
      ELSE EventsBy("isRecruiter") = <<Event("isRecruiter", "send", Forbidden)>>

\* an applicant's valid token has passed verifyToken and isRecruiter has
\* answered it with 403
C18_Witness ==
  /\ HasRun(2, "isRecruiter")
  /\ http.auth # Undefined
  /\ "role_id" \in DOMAIN http.auth
  /\ http.auth.role_id = ApplicantRole
  /\ http.log = <<Event("verifyToken", "next", 0), Event("isRecruiter", "send", Forbidden)>>

\* C19: the handler of GET /competence/list sends exactly one response, 200
\* or 404, and does not pass control on once it has responded.
C19_OneResponse ==
  HasRun(2, "list") =>
    \/ EventsBy("list") = <<Event("list", "send", Ok)>>
    \/ EventsBy("list") = <<Event("list", "send", NotFound)>>

\* C20: when loadHandlers has returned, every added request handler is
\* mounted once, in the order added, and its routes are registered.
C20_RoutesRegistered ==
  loader.stage = "loaded" =>
    /\ loader.mounted = loader.reqHandlers
    /\ loader.routes = DOMAIN loader.reqHandlers

(* ------------------- submitApplication: further claims ----------------- *)

\* the ids of the availability rows that a step adds
AddedAvailabilities == (DOMAIN availability') \ (DOMAIN availability)

\* C21: every competence_profile row and every availability row that the
\* commit of a submitApplication adds carries the person_id that the call
\* resolved from its username, whatever fields (a person_id among them) the
\* submitted competency and period records hold.
C21_ResolvedPersonId ==
  [][ \A c \in Clients :
        ( IsSubmit(c) /\ t[c].state = "commit" /\ t'[c].state = "committed" )
        => /\ \A r \in competence_profile' \ competence_profile :
                r.person_id = call[c].person_id
           /\ \A id \in AddedAvailabilities :
                availability'[id].person_id = call[c].person_id
    ]_vars

\* C22: on a transaction that a submitApplication has opened, commit and
\* rollback are never both invoked and neither is invoked twice; once the call
\* has returned or raised, exactly one of them has been invoked, once, also
\* when the log line after the call of commit raises.
C22_OneCommitOrRollback ==
  \A c \in Clients :
    ( IsSubmit(c) /\ t[c].state # "none" )
    => /\ Len(t[c].invoked) <= 1
       /\ pc[c] = "returned" => Len(t[c].invoked) = 1

(* ---------------- updateApplication on a table of several rows --------- *)

\* the rows the availability table may hold when a status update starts: a
\* row of either person, new (version 0, the initial status) or updated
\* (a later version, a status that a recruiter set)
StoredAvailabilities ==
  { r \in [person_id : { p.person_id : p \in Registered },
           from_date : {"2024-01-01"}, to_date : {"2024-01-10"},
           application_status : {DefaultStatus} \cup StatusInputs,
           version_number : 0..MaxVersion] :
      (r.version_number = 0) <=> (r.application_status = DefaultStatus) }

\* the status updates on that table: a row's id or the first unused id
FrameUpdates ==
  [availability_id : 1..(MaxRows + 1), application_status : StatusInputs,
   version_number : 0..MaxVersion]

\* the tables hold rows when the calls start
FrameInit ==
  /\ competence_profile \in
       SUBSET [person_id : { r.person_id : r \in Registered },
               competence_id : {1}, years_of_experience : {1}]
  /\ availability \in UNION { [1..n -> StoredAvailabilities] : n \in 0..MaxRows }
  /\ pc = [c \in Clients |-> "idle"]
  /\ call = [c \in Clients |-> NoCall]
  /\ t = [c \in Clients |-> NoTransaction]
  /\ updates = [c \in Clients |-> <<>>]
  /\ ret = [c \in Clients |-> NoResult]
  /\ person = Registered
  /\ http = NoRequest
  /\ loader = NewLoader

\* status updates, call after call, by a single client; database statements
\* may fail
FrameNext ==
  \/ UpdateStep("c1", FrameUpdates, BOOLEAN)
  \/ Forget("c1")

FrameSpec == FrameInit /\ [][FrameNext]_vars

\* client c's updateApplication returns or raises in this step
UpdateReturns(c) == pc[c] # "returned" /\ pc'[c] = "returned" /\ IsUpdate(c)'

\* the fields of an availability row that a status update may not touch
Kept(row) ==
  [person_id |-> row.person_id, from_date |-> row.from_date, to_date |-> row.to_date]

\* C23: the step in which an updateApplication returns "success" changes only
\* application_status and version_number of the availability row with the
\* given availability_id: the table keeps its ids, every other row and the
\* row's person_id, from_date and to_date are as before, and so are all
\* person and competence_profile rows; the step in which an updateApplication
\* raises changes no row at all.
C23_UpdateFrame ==
  [][ \A c \in Clients :
        /\ ( UpdateReturns(c) /\ ret'[c] = Success )
           => /\ DOMAIN availability' = DOMAIN availability
              /\ \A id \in DOMAIN availability :
                   IF id = call'[c].availability_id
                     THEN Kept(availability'[id]) = Kept(availability[id])
                     ELSE availability'[id] = availability[id]
              /\ person' = person
              /\ competence_profile' = competence_profile
        /\ ( UpdateReturns(c) /\ ret'[c].kind = "error" )
           => /\ availability' = availability
              /\ person' = person
              /\ competence_profile' = competence_profile
    ]_vars

\* a successful status update has returned on a table of two rows: the row it
\* names holds the new status and the next version, the other row of the
\* table is still new, and a competence_profile row is stored
C23_Witness ==
  \E c \in Clients :
    /\ IsUpdate(c) /\ pc[c] = "returned" /\ ret[c] = Success
    /\ Len(availability) = 2
    /\ call[c].availability_id \in DOMAIN availability
    /\ availability[call[c].availability_id].application_status
         = call[c].application_status
    /\ availability[call[c].availability_id].version_number
         = call[c].version_number + 1
    /\ \E id \in DOMAIN availability :
         /\ id # call[c].availability_id
         /\ availability[id].version_number = 0
         /\ availability[id].application_status = DefaultStatus
    /\ competence_profile # {}

====
